---- MODULE Spec2Model ----
(***************************************************************************)
(* Model of tools/pytorch2onnx.py: the command-line driver (__main__) and  *)
(* the export routine pytorch2onnx.  The script is sequential; every       *)
(* statement group is one action and pc is the position in the script.     *)
(* Results of the external libraries (the traced graph, the simplifier's   *)
(* graph and verdict, the ONNX checker's verdict, the two networks'        *)
(* outputs) are nondeterministic choices from small sets.                  *)
(***************************************************************************)
EXTENDS Integers, Sequences, FiniteSets, TLC

(* ---------------------------- bounds ----------------------------------- *)
MaxDim == 2          \* image sides range over 1..MaxDim
MaxShapeLen == 3     \* number of values given to --shape is 1..MaxShapeLen
MaxInit == 2         \* initializers in a graph: 0..MaxInit
MaxInputs == 2       \* graph inputs: 0..MaxInputs

(* ------------------------ program constants ---------------------------- *)
SupportedOpset == 11
NormLen == 3
ImgChannels == 3
RemovedNames == {"1218", "1081", "971", "861", "758", "756"}
\* np.allclose defaults (rtol = 1e-05, atol = 1e-08); values are counted in
\* units of 1e-08, so atol is 1 unit and rtol is 1 / RTolDen.
ATol == 1
RTolDen == 100000

MsgOpset == "MMDet only support opset 11 now"
MsgShape == "invalid input shape"
MsgMean == "assert len(args.mean) == 3"
MsgStd == "assert len(args.std) == 3"
MsgSimplify == "Simplified ONNX model could not be validated"
MsgChecker == "onnx.checker.check_model"
MsgFeed == "assert (len(net_feed_input) == 1)"
MsgDiffer == "The outputs are different between Pytorch and ONNX"
MsgExported == "Successfully exported ONNX model"
MsgSame == "The numerical values are same between Pytorch and ONNX"

(* ------------------------- value domains ------------------------------- *)
NoShape == <<>>
NoTensor == [shape |-> <<>>, normalized |-> FALSE, device |-> "none", kind |-> "none"]
NoGraph == [input |-> <<>>, initializer |-> <<>>, producer |-> "none"]
NoArgs == [opset_version |-> 0, shape |-> <<>>, mean |-> 0, std |-> 0,
           verify |-> FALSE, simplify |-> FALSE]
NoMeta == [img_shape |-> <<>>, ori_shape |-> <<>>, pad_shape |-> <<>>,
           scale_factor |-> 0, flip |-> FALSE]
NoCall == [fn |-> "none", img_metas |-> NoMeta, return_loss |-> FALSE,
           rescale |-> FALSE, eval |-> FALSE]
NoModelCall == [img |-> NoTensor, img_metas |-> NoMeta, return_loss |-> FALSE,
                rescale |-> FALSE, eval |-> FALSE, forward |-> NoCall]
NoVal == -1
Dims == 1..MaxDim
Opsets == {10, 11}
NormLens == {2, 3}
InputNames == {"input", "756"}
InitNames == {"756", "w", "b"}
TorchVals == {0, 200003}
OnnxVals == {0, 1, 200000}

SeqsUpTo(S, n) == UNION {[1..k -> S] : k \in 0..n}

Graphs(producer) ==
    [input : SeqsUpTo(InputNames, MaxInputs),
     initializer : SeqsUpTo(InitNames, MaxInit),
     producer : {producer}]

Range(s) == {s[i] : i \in 1..Len(s)}

Abs(x) == IF x < 0 THEN -x ELSE x

(* ------------------------- pure functions ------------------------------ *)
OpsetAtMost(v) == v <= SupportedOpset

\* line 161
OpsetSupported(v) == v = SupportedOpset

InputShapeSwapped(shape) ==
    IF Len(shape) = 1 THEN <<1, ImgChannels, shape[1], shape[1]>>
    ELSE IF Len(shape) = 2 THEN <<1, ImgChannels, shape[2], shape[1]>>
    ELSE NoShape

\* lines 167-172
InputShapeOf(shape) ==
    IF Len(shape) = 1 THEN <<1, ImgChannels, shape[1], shape[1]>>
    ELSE IF Len(shape) = 2 THEN <<1, ImgChannels>> \o shape
    ELSE NoShape

\* lines 174-175
NormLenOk(n) == n = NormLen

\* mmcv.imread: a colour image, shape (rows, cols, 3)
ImRead(input_img) == [shape |-> <<MaxDim, 1, ImgChannels>>, normalized |-> FALSE]

\* mmcv.imnormalize keeps the shape
ImNormalize(img) == [img EXCEPT !.normalized = TRUE]

\* mmcv.imresize(img, size): size is (w, h); the result has h rows, w columns
ImResize(img, size) == [img EXCEPT !.shape = <<size[2], size[1], img.shape[3]>>]

\* ndarray.transpose(2, 0, 1)
Transpose201(img) == [img EXCEPT !.shape = <<img.shape[3], img.shape[1], img.shape[2]>>]

\* torch.from_numpy(..).unsqueeze(0).float().cuda()
ToCudaBatch(img) ==
    [shape |-> <<1>> \o img.shape, normalized |-> img.normalized,
     device |-> "cuda", kind |-> "tensor"]

\* lines 33-38
PreprocessImage(input_img, shape4, normalize) ==
    LET raw == ImRead(input_img)
        nrm == IF normalize THEN ImNormalize(raw) ELSE raw
    IN  ToCudaBatch(Transpose201(ImResize(nrm, SubSeq(shape4, 3, 4))))

\* lines 39-47
OneMeta(shape4) ==
    LET hwc == <<shape4[3], shape4[4], shape4[2]>>
    IN  [img_shape |-> hwc, ori_shape |-> hwc, pad_shape |-> hwc,
         scale_factor |-> 1, flip |-> FALSE]

ToNumpySqueezed(t) ==
    [t EXCEPT !.device = "cpu", !.kind = "ndarray", !.shape = Tail(t.shape)]

\* one_img.detach().cpu().numpy()
ToNumpy(t) == [t EXCEPT !.device = "cpu", !.kind = "ndarray"]

\* lines 50-51
PatchedForward(meta) ==
    [fn |-> "partial", img_metas |-> meta, return_loss |-> FALSE,
     rescale |-> FALSE, eval |-> TRUE]

OriginForward == [fn |-> "origin", img_metas |-> NoMeta, return_loss |-> FALSE,
                  rescale |-> FALSE, eval |-> FALSE]

ForwardLeftPatched(origin_forward, current) == current

\* line 68
ForwardAfterExport(origin_forward, current) == origin_forward

\* RepeatedField.remove: drops the first element equal to x
RECURSIVE RemoveFirst(_, _)
RemoveFirst(s, x) ==
    IF s = <<>> THEN <<>>
    ELSE IF Head(s) = x THEN Tail(s)
    ELSE <<Head(s)>> \o RemoveFirst(Tail(s), x)

RECURSIVE RemoveAll(_, _)
RemoveAll(s, removed) ==
    IF removed = <<>> THEN s
    ELSE RemoveAll(RemoveFirst(s, Head(removed)), Tail(removed))

IsRemovedName(n) == n \in RemovedNames

\* removal while iterating: the element after a removed one is never examined
RECURSIVE SkipAfterRemoval(_)
SkipAfterRemoval(s) ==
    IF s = <<>> THEN <<>>
    ELSE IF IsRemovedName(Head(s))
         THEN IF Len(s) = 1 THEN <<>>
              ELSE <<s[2]>> \o SkipAfterRemoval(Tail(Tail(s)))
         ELSE <<Head(s)>> \o SkipAfterRemoval(Tail(s))

PruneWhileIterating(g) == [g EXCEPT !.initializer = SkipAfterRemoval(g.initializer)]

\* lines 78-83
PruneInitializers(g) ==
    LET removed_initializers == SelectSeq(g.initializer, IsRemovedName)
    IN  [g EXCEPT !.initializer = RemoveAll(g.initializer, removed_initializers)]

\* onnx.checker.check_model rejects a graph that names an input twice
CheckerMayPass(g) == Cardinality(Range(g.input)) = Len(g.input)

AllGraphInputs(g) == Range(g.input)

\* lines 101-105
NetFeedInput(g) == Range(g.input) \ Range(g.initializer)

\* line 106
FeedInputOk(g) == Cardinality(NetFeedInput(g)) = 1

\* np.allclose(a, b): |a - b| <= atol + rtol * |b|; on whole numbers of units
\* this is |a - b| <= atol + floor(|b| / RTolDen)
AllClose(a, b) == Abs(a - b) <= ATol + (Abs(b) \div RTolDen)

OutputsSamePanOnly(tp, tc, op, oc) == AllClose(tp, op)

\* lines 111-115
OutputsSame(tp, tc, op, oc) == AllClose(tp, op) /\ AllClose(tc, oc)

AlwaysVerify(vfy) == "verify_check"

\* lines 70, 89
NextAfterRestore(simplify) == IF simplify THEN "simplify" ELSE "print"
NextAfterPrint(vfy) == IF vfy THEN "verify_check" ELSE "done"

(* ------------------------------ state ---------------------------------- *)
VARIABLES
    pc,             \* position in the script
    args,           \* parse_args() result: lengths stand for --mean / --std
    input_shape,    \* (1, C, H, W)
    opset_version, verify, do_simplify, normalize_cfg,
    cfg_loaded, model_built, ckpt_loaded,
    forward,        \* model.forward
    origin_forward, \* saved at line 49
    one_img, one_meta,
    file,           \* the graph stored in output_file
    writes,         \* who wrote output_file, in order
    export_opset,   \* opset_version given to torch.onnx.export
    model_simp,     \* graph returned by onnxsim.simplify
    steps,          \* steps of pytorch2onnx started so far
    traced_input, simp_input, torch_call, sess_input,
    onnx_model,     \* graph loaded from output_file at line 91
    sess_created,
    pytorch_pred,   \* <<pan, cat>> of the PyTorch model
    onnx_pred,      \* <<pan, cat>> of the inference session
    printed,        \* messages printed
    failure         \* message of the error that ended the run

vars == <<pc, args, input_shape, opset_version, verify, do_simplify,
          normalize_cfg, cfg_loaded, model_built, ckpt_loaded, forward,
          origin_forward, one_img, one_meta, file, writes, export_opset,
          model_simp, steps, traced_input, simp_input, torch_call, sess_input,
          onnx_model, sess_created, pytorch_pred, onnx_pred, printed, failure>>

mainVars == <<cfg_loaded, model_built, ckpt_loaded>>
callVars == <<opset_version, verify, do_simplify, normalize_cfg>>
imgVars == <<one_img, one_meta>>
fwdVars == <<forward, origin_forward>>
fileVars == <<file, writes, export_opset>>
verVars == <<torch_call, sess_input, onnx_model, sess_created, pytorch_pred,
            onnx_pred>>

Init ==
    /\ pc = "start"
    /\ args = NoArgs
    /\ input_shape = NoShape
    /\ opset_version = SupportedOpset
    /\ verify = FALSE
    /\ do_simplify = FALSE
    /\ normalize_cfg = FALSE
    /\ cfg_loaded = FALSE
    /\ model_built = FALSE
    /\ ckpt_loaded = FALSE
    /\ forward = OriginForward
    /\ origin_forward = NoCall
    /\ one_img = NoTensor
    /\ one_meta = NoMeta
    /\ file = NoGraph
    /\ writes = <<>>
    /\ export_opset = 0
    /\ model_simp = NoGraph
    /\ steps = <<>>
    /\ traced_input = NoTensor
    /\ simp_input = NoTensor
    /\ torch_call = NoModelCall
    /\ sess_input = NoTensor
    /\ onnx_model = NoGraph
    /\ sess_created = FALSE
    /\ pytorch_pred = <<NoVal, NoVal>>
    /\ onnx_pred = <<NoVal, NoVal>>
    /\ printed = <<>>
    /\ failure = "none"

AbortContinues(msg) ==
    /\ pc' = "print"
    /\ failure' = msg

Abort(msg) ==
    /\ pc' = "aborted"
    /\ failure' = msg

(* --------------------------- __main__ ---------------------------------- *)
\* line 159: parse_args()
ParseArgs ==
    /\ pc = "start"
    /\ \E o \in Opsets, sh \in SeqsUpTo(Dims, MaxShapeLen) \ {<<>>},
          m \in NormLens, sd \in NormLens, v \in BOOLEAN, s \in BOOLEAN :
          args' = [opset_version |-> o, shape |-> sh, mean |-> m, std |-> sd,
                   verify |-> v, simplify |-> s]
    /\ pc' = "main_opset"
    /\ UNCHANGED <<input_shape, callVars, mainVars, fwdVars, imgVars, fileVars,
                   model_simp, steps, traced_input, simp_input, verVars,
                   printed, failure>>

\* line 161
CheckOpset ==
    /\ pc = "main_opset"
    /\ IF OpsetSupported(args.opset_version)
       THEN pc' = "main_shape" /\ UNCHANGED failure
       ELSE Abort(MsgOpset)
    /\ UNCHANGED <<args, input_shape, callVars, mainVars, fwdVars,
                   imgVars, fileVars, model_simp, steps, traced_input,
                   simp_input, verVars, printed>>

\* lines 167-172
ComputeInputShape ==
    /\ pc = "main_shape"
    /\ IF InputShapeOf(args.shape) # NoShape
       THEN /\ input_shape' = InputShapeOf(args.shape)
            /\ pc' = "main_norm"
            /\ UNCHANGED failure
       ELSE /\ Abort(MsgShape)
            /\ UNCHANGED input_shape
    /\ UNCHANGED <<args, callVars, mainVars, fwdVars, imgVars, fileVars,
                   model_simp, steps, traced_input, simp_input, verVars,
                   printed>>

\* lines 174-180
CheckMeanStd ==
    /\ pc = "main_norm"
    /\ IF ~NormLenOk(args.mean) THEN Abort(MsgMean)
       ELSE IF ~NormLenOk(args.std) THEN Abort(MsgStd)
       ELSE pc' = "main_cfg" /\ UNCHANGED failure
    /\ UNCHANGED <<args, input_shape, callVars, mainVars, fwdVars,
                   imgVars, fileVars, model_simp, steps, traced_input,
                   simp_input, verVars, printed>>

\* lines 182-184
LoadConfig ==
    /\ pc = "main_cfg"
    /\ cfg_loaded' = TRUE
    /\ pc' = "main_build"
    /\ UNCHANGED <<args, input_shape, callVars, model_built,
                   ckpt_loaded, fwdVars, imgVars, fileVars, model_simp, steps,
                   traced_input, simp_input, verVars, printed, failure>>

\* line 187
BuildModel ==
    /\ pc = "main_build"
    /\ model_built' = TRUE
    /\ pc' = "main_ckpt"
    /\ UNCHANGED <<args, input_shape, callVars, cfg_loaded,
                   ckpt_loaded, fwdVars, imgVars, fileVars, model_simp, steps,
                   traced_input, simp_input, verVars, printed, failure>>

\* lines 188-200: load the checkpoint and call pytorch2onnx
LoadCheckpoint ==
    /\ pc = "main_ckpt"
    /\ ckpt_loaded' = TRUE
    /\ opset_version' = args.opset_version
    /\ verify' = args.verify
    /\ do_simplify' = args.simplify
    /\ normalize_cfg' = TRUE
    /\ pc' = "preprocess"
    /\ UNCHANGED <<args, input_shape, cfg_loaded, model_built, fwdVars,
                   imgVars, fileVars, model_simp, steps, traced_input,
                   simp_input, verVars, printed, failure>>

(* -------------------------- pytorch2onnx ------------------------------- *)
\* lines 31-47
Preprocess ==
    /\ pc = "preprocess"
    /\ one_img' = PreprocessImage("input_img", input_shape, normalize_cfg)
    /\ one_meta' = OneMeta(input_shape)
    /\ pc' = "patch"
    /\ UNCHANGED <<args, input_shape, callVars, mainVars, fwdVars,
                   fileVars, model_simp, steps, traced_input, simp_input,
                   verVars, printed, failure>>

\* lines 49-51
PatchForward ==
    /\ pc = "patch"
    /\ origin_forward' = forward
    /\ forward' = PatchedForward(one_meta)
    /\ steps' = Append(steps, "patch")
    /\ pc' = "export"
    /\ UNCHANGED <<args, input_shape, callVars, mainVars, imgVars,
                   fileVars, model_simp, traced_input, simp_input, verVars,
                   printed, failure>>

\* lines 59-67: torch.onnx.export traces the model and writes output_file
Export ==
    /\ pc = "export"
    /\ file' \in Graphs("export")
    /\ writes' = Append(writes, "export")
    /\ export_opset' = opset_version
    /\ traced_input' = one_img
    /\ steps' = Append(steps, "export")
    /\ pc' = "restore"
    /\ UNCHANGED <<args, input_shape, callVars, mainVars, fwdVars,
                   imgVars, model_simp, simp_input, verVars, printed, failure>>

\* line 68
RestoreForward ==
    /\ pc = "restore"
    /\ forward' = ForwardAfterExport(origin_forward, forward)
    /\ pc' = NextAfterRestore(do_simplify)
    /\ UNCHANGED <<args, input_shape, callVars, mainVars,
                   origin_forward, imgVars, fileVars, model_simp, steps,
                   traced_input, simp_input, verVars, printed, failure>>

\* lines 70-85: simplify the exported graph, drop the listed initializers, save
Simplify ==
    /\ pc = "simplify"
    /\ simp_input' = ToNumpy(one_img)
    /\ steps' = Append(steps, "simplify")
    /\ \/ \E g \in Graphs("onnxsim") :
             /\ model_simp' = g
             /\ file' = PruneInitializers(g)
             /\ writes' = Append(writes, "simplify")
             /\ pc' = "print"
             /\ UNCHANGED failure
       \/ /\ Abort(MsgSimplify)      \* check is false: the result is dropped
          /\ UNCHANGED <<model_simp, file, writes>>
    /\ UNCHANGED <<args, input_shape, callVars, mainVars, fwdVars,
                   imgVars, export_opset, traced_input, verVars, printed>>

\* line 87
PrintExported ==
    /\ pc = "print"
    /\ printed' = Append(printed, MsgExported)
    /\ pc' = NextAfterPrint(verify)
    /\ UNCHANGED <<args, input_shape, callVars, mainVars, fwdVars,
                   imgVars, fileVars, model_simp, steps, traced_input,
                   simp_input, verVars, failure>>

\* lines 89-92: load output_file and run the ONNX checker on it
VerifyCheck ==
    /\ pc = "verify_check"
    /\ steps' = Append(steps, "verify")
    /\ onnx_model' = file
    /\ \E ok \in BOOLEAN :
          IF ok /\ CheckerMayPass(file)
          THEN pc' = "verify_torch" /\ UNCHANGED failure
          ELSE Abort(MsgChecker)
    /\ UNCHANGED <<args, input_shape, callVars, mainVars, fwdVars,
                   imgVars, fileVars, model_simp, traced_input, simp_input,
                   torch_call, sess_input, sess_created, pytorch_pred,
                   onnx_pred, printed>>

\* lines 96-98
RunPytorch ==
    /\ pc = "verify_torch"
    /\ torch_call' = [img |-> one_img, img_metas |-> one_meta,
                      return_loss |-> FALSE, rescale |-> FALSE, eval |-> TRUE,
                      forward |-> forward]
    /\ pytorch_pred' \in TorchVals \X TorchVals
    /\ pc' = "verify_feed"
    /\ UNCHANGED <<args, input_shape, callVars, mainVars, fwdVars,
                   imgVars, fileVars, model_simp, steps, traced_input,
                   simp_input, sess_input, onnx_model, sess_created,
                   onnx_pred, printed, failure>>

\* lines 101-106
CheckFeedInput ==
    /\ pc = "verify_feed"
    /\ IF FeedInputOk(onnx_model)
       THEN pc' = "verify_sess" /\ UNCHANGED failure
       ELSE Abort(MsgFeed)
    /\ UNCHANGED <<args, input_shape, callVars, mainVars, fwdVars,
                   imgVars, fileVars, model_simp, steps, traced_input,
                   simp_input, verVars, printed>>

\* lines 107-109
RunSession ==
    /\ pc = "verify_sess"
    /\ sess_created' = TRUE
    /\ sess_input' = ToNumpy(one_img)
    /\ onnx_pred' \in OnnxVals \X OnnxVals
    /\ pc' = "verify_compare"
    /\ UNCHANGED <<args, input_shape, callVars, mainVars, fwdVars,
                   imgVars, fileVars, model_simp, steps, traced_input,
                   simp_input, torch_call, onnx_model, pytorch_pred, printed,
                   failure>>

\* lines 111-116
Compare ==
    /\ pc = "verify_compare"
    /\ IF OutputsSame(pytorch_pred[1], pytorch_pred[2], onnx_pred[1], onnx_pred[2])
       THEN /\ printed' = Append(printed, MsgSame)
            /\ pc' = "done"
            /\ UNCHANGED failure
       ELSE /\ Abort(MsgDiffer)
            /\ UNCHANGED printed
    /\ UNCHANGED <<args, input_shape, callVars, mainVars, fwdVars,
                   imgVars, fileVars, model_simp, steps, traced_input,
                   simp_input, verVars>>

Next ==
    \/ ParseArgs
    \/ CheckOpset
    \/ ComputeInputShape
    \/ CheckMeanStd
    \/ LoadConfig
    \/ BuildModel
    \/ LoadCheckpoint
    \/ Preprocess
    \/ PatchForward
    \/ Export
    \/ RestoreForward
    \/ Simplify
    \/ PrintExported
    \/ VerifyCheck
    \/ RunPytorch
    \/ CheckFeedInput
    \/ RunSession
    \/ Compare

Spec == Init /\ [][Next]_vars

(* ============================ properties =============================== *)
Last(s) == s[Len(s)]
IsPrefix(a, b) == Len(a) <= Len(b) /\ SubSeq(b, 1, Len(a)) = a
RunEnded == pc \in {"done", "aborted"}
P2ORunEnded == RunEnded /\ steps # <<>>
ExpectedSteps(simplify, vfy) ==
    <<"patch", "export">> \o (IF simplify THEN <<"simplify">> ELSE <<>>)
                          \o (IF vfy THEN <<"verify">> ELSE <<>>)

\* C1 (as stated): every finished run of pytorch2onnx consists of patch,
\* export, simplify iff do_simplify, verify iff verify, in this order.
C1_Original ==
    P2ORunEnded => steps = ExpectedSteps(do_simplify, verify)

\* C1 (amended): the steps occur in the fixed order patch, export, simplify,
\* verify; export happens in every run, simplification iff do_simplify, and
\* verification iff verify is set and the run was not ended by a failed
\* simplifier validation; a verification after a simplification loads the
\* simplified file.
C1_StepOrder ==
    /\ IsPrefix(steps, ExpectedSteps(do_simplify, verify))
    /\ P2ORunEnded =>
          steps = ExpectedSteps(do_simplify, verify /\ failure # MsgSimplify)
    /\ ("verify" \in Range(steps) /\ do_simplify) =>
          /\ onnx_model = file
          /\ onnx_model.producer = "onnxsim"
          /\ writes = <<"export", "simplify">>

C1_Witness ==
    /\ pc = "done"
    /\ do_simplify /\ verify
    /\ steps = <<"patch", "export", "simplify", "verify">>

C1_AbortWitness ==
    /\ pc = "aborted" /\ failure = MsgSimplify /\ verify

Close(i) ==
    Abs(pytorch_pred[i] - onnx_pred[i]) <= 1 + (Abs(onnx_pred[i]) \div 100000)

\* C2: with verify set, a run whose outputs were computed ends normally with
\* the "same" message iff pan and cat both agree within the tolerance;
\* otherwise it aborts with the "different" message and "same" is never printed.
C2_Verdict ==
    /\ (verify /\ RunEnded /\ sess_created) =>
          IF Close(1) /\ Close(2)
          THEN /\ pc = "done"
               /\ failure = "none"
               /\ Last(printed) = "The numerical values are same between Pytorch and ONNX"
          ELSE /\ pc = "aborted"
               /\ failure = "The outputs are different between Pytorch and ONNX"
               /\ "The numerical values are same between Pytorch and ONNX" \notin Range(printed)
    /\ "The numerical values are same between Pytorch and ONNX" \in Range(printed) =>
          verify /\ sess_created /\ Close(1) /\ Close(2) /\ pc = "done"
    /\ (verify /\ pc = "done") =>
          "The numerical values are same between Pytorch and ONNX" \in Range(printed)

C2_Witness ==
    /\ pc = "done" /\ verify
    /\ MsgSame \in Range(printed)
    /\ pytorch_pred = <<0, 200003>>
    /\ onnx_pred = <<1, 200000>>

LastWritten == IF do_simplify /\ failure # MsgSimplify
               THEN <<"export", "simplify">> ELSE <<"export">>

C3_State ==
    /\ (pc = "aborted") <=> (failure # "none")
    /\ failure \in {MsgOpset, MsgShape, MsgMean, MsgStd} =>
          /\ ~cfg_loaded /\ ~model_built /\ ~ckpt_loaded
          /\ steps = <<>> /\ writes = <<>> /\ printed = <<>>
    /\ failure = MsgSimplify =>
          /\ steps = <<"patch", "export", "simplify">>
          /\ writes = <<"export">> /\ file.producer = "export"
          /\ printed = <<>> /\ onnx_model = NoGraph /\ ~sess_created
    /\ failure = MsgChecker =>
          /\ Last(steps) = "verify" /\ writes = LastWritten
          /\ torch_call = NoModelCall /\ ~sess_created
          /\ printed = <<MsgExported>>
    /\ failure = MsgFeed =>
          /\ Last(steps) = "verify" /\ writes = LastWritten
          /\ ~sess_created /\ printed = <<MsgExported>>
    /\ failure = MsgDiffer =>
          /\ Last(steps) = "verify" /\ writes = LastWritten
          /\ printed = <<MsgExported>>
    /\ Cardinality(Range(steps)) = Len(steps)

\* C3: a failed check ends the run where it fails: nothing runs afterwards,
\* no step is repeated, and the failing step leaves the output file as it
\* was last written.
C3_AbortIsFinal ==
    /\ []C3_State
    /\ [][pc = "aborted" => UNCHANGED vars]_vars
    /\ [][failure' # "none" => file' = file /\ writes' = writes]_vars

C3_Witness ==
    /\ pc = "aborted" /\ failure = MsgSimplify
    /\ file.producer = "export" /\ file.initializer = <<"756", "w">>

\* C4: a command-line run with an opset other than 11 aborts before the
\* config, the model, the checkpoint or any file is touched; every export of
\* a command-line run uses opset 11.
C4_OpsetGate ==
    /\ (args.opset_version # 11 /\ pc \notin {"start", "main_opset"}) =>
          /\ pc = "aborted"
          /\ failure = "MMDet only support opset 11 now"
          /\ ~cfg_loaded /\ ~model_built /\ ~ckpt_loaded
          /\ writes = <<>> /\ file = NoGraph
    /\ writes # <<>> => export_opset = 11

C4_Witness ==
    /\ args.opset_version = 10
    /\ pc = "aborted" /\ failure = MsgOpset

ShapeStepDone ==
    /\ pc \notin {"start", "main_opset", "main_shape"}
    /\ failure # MsgOpset

\* C5: --shape s gives (1, 3, s, s), --shape h w gives (1, 3, h, w), any
\* other count aborts before the model is built or anything is exported; the
\* shape reaching pytorch2onnx has four components, batch 1 and 3 channels.
C5_ShapeValidation ==
    /\ (ShapeStepDone /\ Len(args.shape) = 1) =>
          input_shape = <<1, 3, args.shape[1], args.shape[1]>>
    /\ (ShapeStepDone /\ Len(args.shape) = 2) =>
          input_shape = <<1, 3, args.shape[1], args.shape[2]>>
    /\ (ShapeStepDone /\ Len(args.shape) \notin {1, 2}) =>
          /\ pc = "aborted" /\ failure = "invalid input shape"
          /\ ~model_built /\ writes = <<>> /\ steps = <<>>
    /\ (ckpt_loaded \/ steps # <<>>) =>
          /\ Len(input_shape) = 4
          /\ input_shape[1] = 1
          /\ input_shape[2] = 3

C5_Witness ==
    /\ Len(args.shape) = 2 /\ args.shape[1] # args.shape[2]
    /\ "export" \in Range(steps)

C5_AbortWitness ==
    /\ Len(args.shape) = 3 /\ failure = MsgShape

NotListed(n) == n \notin {"1218", "1081", "971", "861", "758", "756"}

\* C6: after a validated simplification the saved graph is the simplifier's
\* result without the initializers named 1218, 1081, 971, 861, 758, 756, the
\* others kept in order; without do_simplify only the export writes the file.
C6_SavedGraph ==
    /\ "simplify" \in Range(writes) =>
          /\ do_simplify
          /\ writes = <<"export", "simplify">>
          /\ file.initializer = SelectSeq(model_simp.initializer, NotListed)
          /\ file.input = model_simp.input
          /\ file.producer = "onnxsim"
    /\ (do_simplify /\ pc \in {"print", "verify_check", "done"}) =>
          "simplify" \in Range(writes)
    /\ ~do_simplify =>
          /\ writes \in {<<>>, <<"export">>}
          /\ file.producer \in {"none", "export"}

C6_Witness ==
    /\ writes = <<"export", "simplify">>
    /\ model_simp.initializer = <<"756", "w">>
    /\ file.initializer = <<"w">>

FedByCaller(n) == n \notin Range(onnx_model.initializer)
FeedCount == Len(SelectSeq(onnx_model.input, FedByCaller))

\* C7: the inference session is created only when the graph loaded from the
\* output file has exactly one graph input that is not an initializer,
\* otherwise the run aborts first; also for a file pruned by simplification.
C7_SingleFeed ==
    /\ (sess_created \/ pc = "verify_sess") =>
          /\ onnx_model = file
          /\ FeedCount = 1
    /\ failure = MsgFeed => (FeedCount # 1 /\ ~sess_created)
    /\ (RunEnded /\ torch_call # NoModelCall /\ FeedCount # 1) =>
          (failure = MsgFeed /\ ~sess_created)

C7_Witness ==
    /\ sess_created
    /\ writes = <<"export", "simplify">>
    /\ model_simp.input = <<"756">>
    /\ model_simp.initializer = <<"756">>

C7_AbortWitness ==
    /\ failure = MsgFeed /\ Len(onnx_model.input) = 2

\* C8: past the export step model.forward is the forward the model had on
\* entry; the patch is in place only around the export, and verification
\* calls the unpatched forward with the four arguments given explicitly.
C8_ForwardRestored ==
    /\ ("export" \in Range(steps) /\ pc # "restore") =>
          (forward = OriginForward /\ forward = origin_forward)
    /\ forward # OriginForward =>
          (pc \in {"export", "restore"} /\ forward.img_metas = one_meta)
    /\ simp_input # NoTensor => forward = OriginForward
    /\ torch_call # NoModelCall =>
          /\ torch_call.forward = OriginForward
          /\ torch_call.img_metas = one_meta
          /\ torch_call.return_loss = FALSE
          /\ torch_call.rescale = FALSE
          /\ torch_call.eval = TRUE

C8_Witness ==
    /\ torch_call # NoModelCall /\ simp_input # NoTensor /\ pc = "done"

\* C9: the image tensor has height H and width W of input_shape, agreeing
\* with img_shape, ori_shape and pad_shape (H, W, C) of the metadata.
C9_TensorMatchesMeta ==
    one_img # NoTensor =>
       /\ one_img.shape[3] = input_shape[3]
       /\ one_img.shape[4] = input_shape[4]
       /\ one_meta.img_shape = <<one_img.shape[3], one_img.shape[4], input_shape[2]>>
       /\ one_meta.ori_shape = one_meta.img_shape
       /\ one_meta.pad_shape = one_meta.img_shape

SameData(a, b) == a.shape = b.shape /\ a.normalized = b.normalized

C10_State ==
    /\ traced_input # NoTensor => traced_input = one_img
    /\ simp_input # NoTensor => SameData(simp_input, one_img)
    /\ torch_call # NoModelCall => torch_call.img = one_img
    /\ sess_input # NoTensor =>
          /\ SameData(sess_input, one_img)
          /\ SameData(sess_input, torch_call.img)
          /\ SameData(sess_input, traced_input)

\* C10: the preprocessed tensor is computed once and never changed; export,
\* simplifier, PyTorch model and inference session all receive its data.
C10_OneTensor ==
    /\ []C10_State
    /\ [][one_img # NoTensor => one_img' = one_img]_vars

C10_Witness ==
    /\ sess_input # NoTensor /\ simp_input # NoTensor
    /\ torch_call # NoModelCall /\ traced_input # NoTensor

====
